---- MODULE Spec2Model ----
(***************************************************************************)
(* Model of app/electron/main.ts: the supervisor of the spawned backend    *)
(* server process and the update-check pass (fetchRelease) that runs on    *)
(* every 'dom-ready' of the main window.                                   *)
(*                                                                         *)
(* One behaviour is a sequence of application runs that share one          *)
(* persisted store.  Every action is one handler of the event loop, run    *)
(* to completion (an async function runs up to its next await).            *)
(*                                                                         *)
(* Event delivery follows Electron: 'ready' fires once per run;            *)
(* 'activate' may fire at any time while the application is up;            *)
(* 'dom-ready' fires on every load or reload of the window; closing the    *)
(* last window emits 'closed' and 'window-all-closed' in one call, whose   *)
(* handler (app.quit) emits 'before-quit' and 'quit' in that same call.    *)
(* After 'quit' no window or application event is delivered any more, but  *)
(* the I/O callbacks of the process (a child's 'close', the resolution of  *)
(* an outstanding request) may still run until the process is gone.        *)
(***************************************************************************)
EXTENDS Integers, Sequences, FiniteSets

\* ---------------------------------------------------------------- bounds
MaxRuns == 2
MaxVersion == 2
MaxPasses == 2
MaxSignals == 4

\* Versions of the application, numbered in release order (1 is the oldest).
Versions == 1..MaxVersion

\* store.get('app_version') of a store that holds no such key.
Absent == 0

VARIABLES
    store,              \* the persisted electron-store: [app_version |-> Absent or a version]
    runs,               \* number of application runs launched so far
    appState,           \* "off" | "launched" | "ready" | "quit"
    appVersion,         \* app.getVersion() of the current run
    isHeadlessMode,     \* args.headless
    isDev,              \* process.env.ELECTRON_DEV
    win32,              \* process.platform === 'win32': the machine the store is on
    mainWindow,         \* "undefined" | "null" | "BrowserWindow"
    serverProcess,      \* [type |-> "undefined"] | [type |-> "null"] | [type |-> "ChildProcess", pid |-> p]
    intentionalQuit,    \* "undefined" | "true"
    serverProcessQuit,  \* "undefined" | "true"
    procs,              \* the server processes spawned by the current run, indexed by pid
    signals,            \* every kill / stdin.destroy issued by the current run, in order
    passes,             \* the fetchRelease calls of the current run
    sent,               \* every webContents.send of the current run, in order
    logged,             \* the log entries written by the last step
    notesShown,         \* per version: show_release_notes signals sent since the store exists
    stopRequested       \* pids whose session quitServerProcess was called on

vars == << store, runs, appState, appVersion, isHeadlessMode, isDev, win32,
           mainWindow, serverProcess, intentionalQuit, serverProcessQuit,
           procs, signals, passes, sent, notesShown, logged, stopRequested >>

\* ------------------------------------------------------------ JS values
Undefined == [type |-> "undefined"]
Null == [type |-> "null"]
ChildProcess(p) == [type |-> "ChildProcess", pid |-> p]

\* JavaScript truthiness of a flag that is undefined until it is set to true.
Truthy(flag) == flag = "true"

LogEntry(level, msg) == [level |-> level, msg |-> msg]

\* ------------------------------------------------------- release source
\* GET /repos/{owner}/{repo}/releases/latest answers {name, html_url}.
HtmlUrl(name) == << "html_url", name >>

\* The tag without its prefix: `releases/tags/${appVersion}`.
ReleaseTagNoPrefix(version) == << version >>

\* The tag of the request `releases/tags/v${appVersion}`.
ReleaseTag(version) == << "v", version >>

\* GET /repos/{owner}/{repo}/releases/tags/{tag} answers {body}.
ReleaseBody(tag) == << "body", tag >>

\* ---------------------------------------------------------------- Init
Init ==
    /\ store = [app_version |-> Absent]
    /\ runs = 0
    /\ appState = "off"
    /\ appVersion = 1
    /\ isHeadlessMode = FALSE
    /\ isDev = FALSE
    /\ win32 \in BOOLEAN
    /\ mainWindow = "undefined"
    /\ serverProcess = Undefined
    /\ intentionalQuit = "undefined"
    /\ serverProcessQuit = "undefined"
    /\ procs = << >>
    /\ signals = << >>
    /\ passes = << >>
    /\ sent = << >>
    /\ logged = << >>
    /\ notesShown = [v \in Versions |-> 0]
    /\ stopRequested = {}


\* ------------------------------------------------- Server Process Supervisor
\* options.detached of startServer: a new process group on every platform
\* but win32.
SpawnDetached == ~win32

\* startServer(flags) followed by attachServerEventHandlers(serverProcess):
\* the process table after the spawn into `table`.  The new process has the
\* next pid.
startServer(table, flags, run) ==
    Append(table, [status |-> "running", flags |-> flags,
                   detached |-> SpawnDetached, run |-> run,
                   handlers |-> TRUE])

\* The headless branch without its flags: `startServer()`.
HeadlessFlagsNone == << >>

\* The flags of the headless branch at the top level of the module.
HeadlessFlags == << "-html-static-dir", "resourcesPath/frontend" >>

\* The guard with its second test inverted: `!serverProcess || !serverProcessQuit`.
StopIsNoopUnlessQuit == serverProcess.type # "ChildProcess" \/ ~Truthy(serverProcessQuit)

\* The guard without its second test: `!serverProcess`.
StopIsNoopIfNoHandle == serverProcess.type # "ChildProcess"

\* The guard of quitServerProcess: `!serverProcess || serverProcessQuit`.
StopIsNoop == serverProcess.type # "ChildProcess" \/ Truthy(serverProcessQuit)

\* The calls without the platform test: the group is signalled on win32 too.
KillSequenceAlwaysGroup(pid) ==
    << [op |-> "kill_group", pid |-> pid], [op |-> "stdin_destroy", pid |-> pid],
       [op |-> "kill", pid |-> pid] >>

\* The calls with the last two exchanged: kill() before stdin.destroy().
KillSequenceDirectFirst(pid) ==
    (IF win32 THEN << >> ELSE << [op |-> "kill_group", pid |-> pid] >>)
        \o << [op |-> "kill", pid |-> pid], [op |-> "stdin_destroy", pid |-> pid] >>

\* The calls quitServerProcess makes on a live session, in order.
KillSequence(pid) ==
    (IF win32 THEN << >> ELSE << [op |-> "kill_group", pid |-> pid] >>)
        \o << [op |-> "stdin_destroy", pid |-> pid], [op |-> "kill", pid |-> pid] >>

\* quitServerProcess().  process.kill(-pid) of a process that is still running
\* succeeds; once the process is gone (its 'close' not yet observed) the call
\* either still finds the group or throws ESRCH, which ends the function
\* before stdin.destroy(), kill() and `serverProcess = null`.
quitServerProcess ==
    /\ stopRequested' = IF serverProcess.type = "ChildProcess"
                        THEN stopRequested \cup {serverProcess.pid}
                        ELSE stopRequested
    /\ IF StopIsNoop
       THEN /\ logged' = << LogEntry("error", "server process already not running") >>
            /\ UNCHANGED << serverProcess, intentionalQuit, signals >>
       ELSE LET pid == serverProcess.pid IN
            /\ intentionalQuit' = "true"
            /\ logged' = << LogEntry("info", "stopping server process...") >>
            /\ \/ /\ signals' = signals \o KillSequence(pid)
                  /\ serverProcess' = Null
               \/ /\ ~win32
                  /\ procs[pid].status # "running"
                  /\ signals' = Append(signals, [op |-> "kill_group", pid |-> pid])
                  /\ UNCHANGED serverProcess

\* The level with the test inverted: `if (intentionalQuit)` error, else info.
CloseLogLevelInverted == IF Truthy(intentionalQuit) THEN "error" ELSE "info"

\* The level the 'close' handler logs at: `if (!intentionalQuit)` error, else info.
CloseLogLevel == IF ~Truthy(intentionalQuit) THEN "error" ELSE "info"

\* The OS: a running server process ends, on its own or because it was signalled.
ProcExit(p) ==
    /\ procs[p].status = "running"
    /\ procs' = [procs EXCEPT ![p].status = "exited"]
    /\ logged' = << >>
    /\ UNCHANGED << store, runs, appState, appVersion, isHeadlessMode, isDev, win32,
                    mainWindow, serverProcess, intentionalQuit, serverProcessQuit,
                    signals, passes, sent, notesShown, stopRequested >>

\* serverProcess.on('close', ...) of the process this run started.
ServerClose(p) ==
    /\ appState # "off"
    /\ procs[p].run = runs
    /\ procs[p].handlers
    /\ procs[p].status = "exited"
    /\ procs' = [procs EXCEPT ![p].status = "closed"]
    /\ logged' = << LogEntry(CloseLogLevel, "server process process exited") >>
    /\ serverProcessQuit' = "true"
    /\ UNCHANGED << store, runs, appState, appVersion, isHeadlessMode, isDev, win32,
                    mainWindow, serverProcess, intentionalQuit,
                    signals, passes, sent, notesShown, stopRequested >>

\* ----------------------------------------------------- the server's output
\* Text is a sequence of characters.
Requesting == << "R", "e", "q", "u", "e", "s", "t", "i", "n", "g" >>

\* Chunks the server writes: a request line ('Requesting: users'), a failure
\* ('connection refused'), the word inside a line ('GET Requesting'), in
\* lower case ('requesting') and cut short ('Request').
ServerTexts ==
    { Requesting \o << ":", " ", "u", "s", "e", "r", "s" >>,
      << "c", "o", "n", "n", "e", "c", "t", "i", "o", "n", " ",
         "r", "e", "f", "u", "s", "e", "d" >>,
      << "G", "E", "T", " " >> \o Requesting,
      << "r", "e", "q", "u", "e", "s", "t", "i", "n", "g" >>,
      << "R", "e", "q", "u", "e", "s", "t" >> }

\* data.indexOf(pattern): the index, from 0, of the first occurrence of the
\* pattern in the data, -1 if there is none.
IndexOf(data, pattern) ==
    LET at == { k \in 1..(Len(data) - Len(pattern) + 1) :
                  SubSeq(data, k, k + Len(pattern) - 1) = pattern }
    IN IF at = {} THEN -1 ELSE (CHOOSE k \in at : \A j \in at : k <= j) - 1

\* A log line made of a fixed text followed by data: `prefix: ${data}`.
DataLogEntry(level, msg, data) == [level |-> level, msg |-> msg, data |-> data]

\* The test on the index as a truth value: `data.indexOf('Requesting')`
\* is false when the data starts with the word.
StderrLogLevelIndexTruthy(data) ==
    IF IndexOf(data, Requesting) > 0 THEN "info" ELSE "error"

\* The level of the stderr handler: `data.indexOf('Requesting') !== -1` info,
\* else error.  (data is a non-empty Buffer, which has indexOf.)
StderrLogLevel(data) ==
    IF IndexOf(data, Requesting) # -1 THEN "info" ELSE "error"

\* Whether the handlers of process p can still be given output: the process
\* was started by this run and its 'close' has not been emitted.
CanOutput(p) ==
    /\ appState # "off"
    /\ procs[p].run = runs
    /\ procs[p].handlers
    /\ procs[p].status \in {"running", "exited"}

\* serverProcess.stdout.on('data', ...)
ServerStdout(p, data) ==
    /\ CanOutput(p)
    /\ logged' = << DataLogEntry("info", "server process stdout: ", data) >>
    /\ UNCHANGED << store, runs, appState, appVersion, isHeadlessMode, isDev, win32,
                    mainWindow, serverProcess, intentionalQuit, serverProcessQuit,
                    procs, signals, passes, sent, notesShown, stopRequested >>

\* serverProcess.stderr.on('data', ...)
ServerStderr(p, data) ==
    /\ CanOutput(p)
    /\ logged' = << DataLogEntry(StderrLogLevel(data), "server process stderr: ", data) >>
    /\ UNCHANGED << store, runs, appState, appVersion, isHeadlessMode, isDev, win32,
                    mainWindow, serverProcess, intentionalQuit, serverProcessQuit,
                    procs, signals, passes, sent, notesShown, stopRequested >>

\* ------------------------------------------------------ application events
\* A start of the application: the top level of the module.  Module state is
\* fresh, the store is the one on disk; the processes, signals and window of
\* the run before are gone with it.  In headless mode the server is
\* started right away; otherwise startElecron registers the handlers.
Launch(version, headless, dev) ==
    /\ appState \in {"off", "quit"}
    /\ runs < MaxRuns
    /\ runs' = runs + 1
    /\ appState' = "launched"
    /\ appVersion' = version
    /\ isHeadlessMode' = headless
    /\ isDev' = dev
    /\ mainWindow' = "undefined"
    /\ intentionalQuit' = "undefined"
    /\ serverProcessQuit' = "undefined"
    /\ passes' = << >>
    /\ sent' = << >>
    /\ signals' = << >>
    /\ stopRequested' = {}
    /\ IF headless
       THEN /\ procs' = startServer(<< >>, HeadlessFlags, runs + 1)
            /\ serverProcess' = ChildProcess(1)
            /\ logged' = << >>
       ELSE /\ procs' = << >>
            /\ serverProcess' = Undefined
            /\ logged' = << LogEntry("info", "App starting...") >>
    /\ UNCHANGED << store, notesShown, win32 >>

\* createWindow(): a new BrowserWindow and, unless in development, a new
\* server process with its handlers attached.
createWindow ==
    /\ mainWindow' = "BrowserWindow"
    /\ IF ~isDev
       THEN /\ procs' = startServer(procs, << >>, runs)
            /\ serverProcess' = ChildProcess(Len(procs) + 1)
       ELSE UNCHANGED << procs, serverProcess >>

\* app.on('ready', createWindow)
Ready ==
    /\ appState = "launched"
    /\ ~isHeadlessMode
    /\ createWindow
    /\ appState' = "ready"
    /\ logged' = << >>
    /\ UNCHANGED << store, runs, appVersion, isHeadlessMode, isDev, win32,
                    intentionalQuit, serverProcessQuit, signals, passes, sent,
                    notesShown, stopRequested >>

\* The test `!mainWindow`, which is also true before 'ready'.
ActivateCreatesWhenFalsy == mainWindow \in {"null", "undefined"}

\* The test of the 'activate' handler: `mainWindow === null`.
ActivateCreates == mainWindow = "null"

\* app.on('activate', ...)
Activate ==
    /\ appState \in {"launched", "ready"}
    /\ ~isHeadlessMode
    /\ IF ActivateCreates
       THEN createWindow
       ELSE UNCHANGED << mainWindow, procs, serverProcess >>
    /\ logged' = << >>
    /\ UNCHANGED << store, runs, appState, appVersion, isHeadlessMode, isDev, win32,
                    intentionalQuit, serverProcessQuit, signals, passes, sent,
                    notesShown, stopRequested >>

\* The application quits: the window, if any, is closed ('closed' sets
\* mainWindow to null), 'window-all-closed' calls app.quit, and the 'quit'
\* handler is quitServerProcess.
Quit ==
    /\ appState \in {"launched", "ready"}
    /\ mainWindow' = IF mainWindow = "BrowserWindow" THEN "null" ELSE mainWindow
    /\ quitServerProcess
    /\ appState' = "quit"
    /\ UNCHANGED << store, runs, appVersion, isHeadlessMode, isDev, win32,
                    serverProcessQuit, procs, passes, sent, notesShown >>

\* ---------------------------------------------------------- Update Notifier
\* A fetchRelease call between two awaits: where it waits, the name of the
\* latest release once it has it, and the tag it asked for.
NewPass == [pc |-> "awaitLatest", latestName |-> Absent, tag |-> << >>]

\* Whether mainWindow.webContents.send can be evaluated: it throws a TypeError
\* when mainWindow is null.
CanSend == mainWindow = "BrowserWindow"

Signal(channel, payload, pass) ==
    [channel |-> channel, payload |-> payload, pass |-> pass]

\* `response.data.name !== appVersion`
IsUpdateAvailable(name) == name # appVersion

\* A test that never takes the first-run branch.
IsFirstRunNever(storedAppVersion) == FALSE

\* `!storedAppVersion`
IsFirstRun(storedAppVersion) == storedAppVersion = Absent

\* `storedAppVersion !== appVersion`
IsUpgraded(storedAppVersion) == storedAppVersion # appVersion

\* webContents.on('dom-ready', ...): a new Octokit and a call of fetchRelease,
\* which runs up to its first await with the latest-release request sent.
DomReady ==
    /\ appState \in {"launched", "ready"}
    /\ mainWindow = "BrowserWindow"
    /\ Len(passes) < MaxPasses
    /\ passes' = Append(passes, NewPass)
    /\ logged' = << >>
    /\ UNCHANGED << store, runs, appState, appVersion, isHeadlessMode, isDev, win32,
                    mainWindow, serverProcess, intentionalQuit, serverProcessQuit,
                    procs, signals, sent, notesShown, stopRequested >>

\* The latest-release request of pass i is answered with a release of the
\* given name: fetchRelease runs from line 304 to its next await or its end.
LatestResolved(i, name) ==
    /\ appState # "off"
    /\ passes[i].pc = "awaitLatest"
    /\ UNCHANGED << runs, appState, appVersion, isHeadlessMode, isDev, win32,
                    mainWindow, serverProcess, intentionalQuit, serverProcessQuit,
                    procs, signals, stopRequested >>
    /\ IF IsUpdateAvailable(name) /\ ~CanSend
       THEN \* TypeError: the promise of fetchRelease is rejected
            /\ passes' = [passes EXCEPT ![i].pc = "rejected", ![i].latestName = name]
            /\ logged' = << >>
            /\ UNCHANGED << store, sent, notesShown >>
       ELSE /\ sent' = IF IsUpdateAvailable(name)
                       THEN Append(sent, Signal("update_available",
                                                [downloadURL |-> HtmlUrl(name)], i))
                       ELSE sent
            /\ logged' = << LogEntry("console", "storedAppVersion") >>
            /\ UNCHANGED notesShown
            /\ LET storedAppVersion == store.app_version IN
               IF IsFirstRun(storedAppVersion)
               THEN /\ store' = [store EXCEPT !.app_version = appVersion]
                    /\ passes' = [passes EXCEPT ![i].pc = "done", ![i].latestName = name]
               ELSE IF IsUpgraded(storedAppVersion)
               THEN /\ passes' = [passes EXCEPT ![i].pc = "awaitTag",
                                                ![i].latestName = name,
                                                ![i].tag = ReleaseTag(appVersion)]
                    /\ UNCHANGED store
               ELSE /\ passes' = [passes EXCEPT ![i].pc = "done", ![i].latestName = name]
                    /\ UNCHANGED store

\* A failure that marks the running version as seen: `store.set` moved into
\* a handler of the rejected request.
FetchFailedMarksVersion(i) ==
    /\ appState # "off"
    /\ passes[i].pc \in {"awaitLatest", "awaitTag"}
    /\ passes' = [passes EXCEPT ![i].pc = "rejected"]
    /\ store' = [store EXCEPT !.app_version = appVersion]
    /\ logged' = << >>
    /\ UNCHANGED << runs, appState, appVersion, isHeadlessMode, isDev, win32,
                    mainWindow, serverProcess, intentionalQuit, serverProcessQuit,
                    procs, signals, sent, notesShown, stopRequested >>

\* The outstanding request of pass i fails (network, 404): the await throws
\* and the promise of fetchRelease, which nobody handles, is rejected.
FetchFailed(i) ==
    /\ appState # "off"
    /\ passes[i].pc \in {"awaitLatest", "awaitTag"}
    /\ passes' = [passes EXCEPT ![i].pc = "rejected"]
    /\ logged' = << >>
    /\ UNCHANGED << store, runs, appState, appVersion, isHeadlessMode, isDev, win32,
                    mainWindow, serverProcess, intentionalQuit, serverProcessQuit,
                    procs, signals, sent, notesShown, stopRequested >>

\* The tagged-release request of pass i is answered: lines 324-327.
TagResolved(i) ==
    /\ appState # "off"
    /\ passes[i].pc = "awaitTag"
    /\ logged' = << >>
    /\ UNCHANGED << runs, appState, appVersion, isHeadlessMode, isDev, win32,
                    mainWindow, serverProcess, intentionalQuit, serverProcessQuit,
                    procs, signals, stopRequested >>
    /\ IF ~CanSend
       THEN /\ passes' = [passes EXCEPT ![i].pc = "rejected"]
            /\ UNCHANGED << store, sent, notesShown >>
       ELSE /\ sent' = Append(sent, Signal("show_release_notes",
                                           [releaseNotes |-> ReleaseBody(passes[i].tag)], i))
            /\ notesShown' = [notesShown EXCEPT ![appVersion] = @ + 1]
            /\ store' = [store EXCEPT !.app_version = appVersion]
            /\ passes' = [passes EXCEPT ![i].pc = "done"]

\* ------------------------------------------------------------ specification
Next ==
    \/ \E version \in Versions, headless, dev \in BOOLEAN :
          \* ELECTRON_DEV is read by startElecron only
          (headless => ~dev) /\ Launch(version, headless, dev)
    \/ Ready
    \/ Activate
    \/ DomReady
    \/ \E p \in DOMAIN procs : ProcExit(p)
    \/ \E p \in DOMAIN procs : ServerClose(p)
    \/ \E i \in DOMAIN passes, name \in Versions : LatestResolved(i, name)
    \/ \E i \in DOMAIN passes : FetchFailed(i)
    \/ \E i \in DOMAIN passes : TagResolved(i)
    \/ Quit

Spec == Init /\ [][Next]_vars

\* A caller that invokes quitServerProcess() directly, at any time and any
\* number of times, as a test of the function does (until MaxSignals calls
\* on the process have been recorded).
StopCall ==
    /\ appState # "off"
    /\ Len(signals) < MaxSignals
    /\ quitServerProcess
    /\ UNCHANGED << store, runs, appState, appVersion, isHeadlessMode, isDev, win32,
                    mainWindow, serverProcessQuit, procs, passes, sent, notesShown >>

\* The supervisor alone under that caller: the application's events and the
\* server's, its output included, without the update check (which shares no
\* variable with it).
NextStop ==
    \/ \E version \in Versions, headless, dev \in BOOLEAN :
          (headless => ~dev) /\ Launch(version, headless, dev)
    \/ Ready
    \/ Activate
    \/ \E p \in DOMAIN procs : ProcExit(p)
    \/ \E p \in DOMAIN procs : ServerClose(p)
    \/ \E p \in DOMAIN procs, data \in ServerTexts : ServerStdout(p, data)
    \/ \E p \in DOMAIN procs, data \in ServerTexts : ServerStderr(p, data)
    \/ StopCall
    \/ Quit

SpecStop == Init /\ [][NextStop]_vars

\* ------------------------------------------------------------------ claims
ShownSignals(channel) == { k \in DOMAIN sent : sent[k].channel = channel }

\* C1: over the whole lifetime of the store, show_release_notes is emitted at
\* most once for any given running version.
C1_NotesAtMostOncePerVersion == \A v \in Versions : notesShown[v] <= 1

\* C2: within one run fetchRelease is started at most once, so at most one
\* update_available and at most one show_release_notes are emitted per run.
C2_OnePassPerRun ==
    /\ Len(passes) <= 1
    /\ Cardinality(ShownSignals("update_available")) <= 1
    /\ Cardinality(ShownSignals("show_release_notes")) <= 1

\* C3: once app_version is set, every later write stores a version that is
\* newer than or equal to the one it replaces.
C3_StoredVersionNeverRolledBack ==
    [][store.app_version # Absent => store'.app_version >= store.app_version]_vars

\* The server processes of this run that have not ended.
LiveProcs == { p \in DOMAIN procs : procs[p].status = "running" }

\* C4: at most one server process started by the application is alive at any
\* time: no server is started while an earlier one has not exited.
C4_AtMostOneLiveServer == Cardinality(LiveProcs) <= 1

\* C4 witness: the window is up, fetchRelease has been called, and the server
\* that createWindow started is still running.
C4_Witness ==
    /\ appState = "ready"
    /\ ~isHeadlessMode
    /\ Len(passes) > 0
    /\ Len(procs) = 1
    /\ procs[1].status = "running"
    /\ serverProcess = ChildProcess(1)

\* The termination signals sent to process p: kills of its group and of itself.
GroupKills(sigs, p) == Cardinality({ k \in DOMAIN sigs : sigs[k] = [op |-> "kill_group", pid |-> p] })
DirectKills(sigs, p) == Cardinality({ k \in DOMAIN sigs : sigs[k] = [op |-> "kill", pid |-> p] })

StoppingLog == << LogEntry("info", "stopping server process...") >>
NotRunningLog == << LogEntry("error", "server process already not running") >>

\* A step in which quitServerProcess ran: it logs one of its two lines.
IsStopStep == logged' \in {StoppingLog, NotRunningLog}

\* The state of the supervisor, the log aside.
supervisor == << serverProcess, intentionalQuit, serverProcessQuit, procs, signals >>

\* C5 as stated: two calls of quitServerProcess in succession on a running
\* process send exactly one termination signal to the OS in total.
C5_ExactlyOneSignalInTotal ==
    \A p \in stopRequested :
        serverProcess.type = "null" => GroupKills(signals, p) + DirectKills(signals, p) = 1

\* C5 amended: the first call on a running process sends one kill to the
\* process and, on every platform but win32, one kill to its process group;
\* the call that follows it sends nothing, leaves the supervisor's state as it
\* is and logs only 'server process already not running'.
C5_StopTwice ==
    [][ IsStopStep =>
          /\ ( /\ serverProcess.type = "ChildProcess"
               /\ ~Truthy(serverProcessQuit)
               /\ procs[serverProcess.pid].status = "running" )
             => /\ DirectKills(signals', serverProcess.pid)
                     = DirectKills(signals, serverProcess.pid) + 1
                /\ GroupKills(signals', serverProcess.pid)
                     = GroupKills(signals, serverProcess.pid) + (IF win32 THEN 0 ELSE 1)
                /\ intentionalQuit' = "true"
          /\ (logged = StoppingLog /\ serverProcess.type = "null")
             => /\ UNCHANGED supervisor
                /\ logged' = NotRunningLog
      ]_vars

\* C5 witness: a call found the session already stopped by an earlier call.
C5_Witness ==
    /\ logged = NotRunningLog
    /\ serverProcess.type = "null"
    /\ intentionalQuit = "true"
    /\ \E p \in stopRequested : DirectKills(signals, p) = 1

\* C6: the 'close' of a session is logged as an error exactly when stop had
\* not been requested for the session before, as informational otherwise, and
\* serverProcessQuit is true afterwards.
C6_CloseClassified ==
    [][ \A p \in DOMAIN procs :
          (p \in DOMAIN procs' /\ procs[p].status = "exited" /\ procs'[p].status = "closed")
          => /\ logged' = << LogEntry(IF p \in stopRequested THEN "info" ELSE "error",
                                      "server process process exited") >>
             /\ serverProcessQuit' = "true"
      ]_vars

\* C6 witness: the exit of a session whose stop had been requested was
\* observed and logged as informational.
C6_Witness ==
    /\ logged = << LogEntry("info", "server process process exited") >>
    /\ serverProcessQuit = "true"
    /\ \E p \in stopRequested : procs[p].status = "closed"

\* C7: after the quit handler has run, every server process of this run that
\* is still alive has been sent a termination signal.
C7_LiveSessionsSignalledOnQuit ==
    appState = "quit" =>
        \A p \in LiveProcs : GroupKills(signals, p) + DirectKills(signals, p) >= 1

\* C7 witness: the application has quit while its server was running, and the
\* server, not yet gone, has been signalled.
C7_Witness ==
    /\ appState = "quit"
    /\ \E p \in LiveProcs : DirectKills(signals, p) = 1

\* C8: in a pass whose latest-release fetch succeeded, update_available is
\* emitted exactly when the latest release's name differs from the running
\* version, with the latest release's URL as downloadURL.
C8_UpdateAvailableIffNamesDiffer ==
    \A i \in DOMAIN passes :
        passes[i].latestName # Absent =>
            LET ups == { k \in ShownSignals("update_available") : sent[k].pass = i } IN
            /\ (ups # {}) <=> (passes[i].latestName # appVersion)
            /\ \A k \in ups :
                  sent[k].payload = [downloadURL |-> << "html_url", passes[i].latestName >>]

\* A step in which a pass read app_version from the store: it prints it.
IsStoreRead == logged' = << LogEntry("console", "storedAppVersion") >>

\* C9: a pass that finds no app_version in the store writes the running
\* version, emits no show_release_notes and asks for no tagged release; if the
\* latest release has the name of the running version it emits nothing.
C9_FirstRun ==
    [][ (IsStoreRead /\ store.app_version = Absent) =>
          /\ store'.app_version = appVersion
          /\ notesShown' = notesShown
          /\ ShownSignals("show_release_notes")' = ShownSignals("show_release_notes")
          /\ \A i \in DOMAIN passes :
                /\ passes'[i].pc = "awaitTag" => passes[i].pc = "awaitTag"
                /\ (passes[i].pc = "awaitLatest" /\ passes'[i].latestName = appVersion)
                   => sent' = sent
      ]_vars

\* C9 witness: the first pass of the first run is done, the latest release
\* has the running version's name, the store holds the running version and
\* nothing has been sent.
C9_Witness ==
    /\ runs = 1
    /\ Len(passes) = 1
    /\ passes[1].pc = "done"
    /\ passes[1].latestName = appVersion
    /\ store.app_version = appVersion
    /\ sent = << >>
    /\ \A v \in Versions : notesShown[v] = 0

\* C10: a pass that finds another version than the running one in the store
\* asks for the release tagged v<running version> and leaves the store alone;
\* the store is advanced only in the step that has emitted show_release_notes
\* with that release's body, and then to the running version.
C10_Upgrade ==
    [][ /\ (IsStoreRead /\ store.app_version \notin {Absent, appVersion}) =>
             /\ store' = store
             /\ notesShown' = notesShown
             /\ \E i \in DOMAIN passes :
                   /\ passes[i].pc = "awaitLatest"
                   /\ passes'[i].pc = "awaitTag"
                   /\ passes'[i].tag = << "v", appVersion >>
        /\ (store.app_version # Absent /\ store' # store) =>
             /\ store'.app_version = appVersion
             /\ \E i \in DOMAIN passes :
                   /\ passes[i].pc = "awaitTag"
                   /\ passes'[i].pc = "done"
                   /\ sent' = Append(sent,
                         [channel |-> "show_release_notes",
                          payload |-> [releaseNotes |-> << "body", passes[i].tag >>],
                          pass |-> i])
      ]_vars

\* C10 witness: show_release_notes has been sent in a run whose store held an
\* older version, and the store now holds the running version.
C10_Witness ==
    /\ store.app_version = appVersion
    /\ \E k \in DOMAIN sent :
          /\ sent[k].channel = "show_release_notes"
          /\ sent[k].payload = [releaseNotes |-> << "body", << "v", appVersion >> >>]
          /\ passes[sent[k].pass].pc = "done"

\* The passes that have sent on the given channel in this run.
Senders(channel) == { sent[k].pass : k \in ShownSignals(channel) }

\* C11: a pass that gets the latest release while the store already holds the
\* running version emits update_available if the latest release's name differs
\* from the running version, emits no show_release_notes, asks for no tagged
\* release and leaves the store as it is, however many passes came before it.
C11_IdempotentPass ==
    [][ \A i \in DOMAIN passes :
          ( /\ i \in DOMAIN passes'
            /\ passes[i].pc = "awaitLatest"
            /\ passes'[i].latestName # Absent
            /\ store.app_version = appVersion )
          => /\ (passes'[i].latestName # appVersion)
                  => sent' = Append(sent,
                        [channel |-> "update_available",
                         payload |-> [downloadURL |-> << "html_url", passes'[i].latestName >>],
                         pass |-> i])
             /\ (passes'[i].latestName = appVersion) => sent' = sent
             /\ notesShown' = notesShown
             /\ passes'[i].pc = "done"
             /\ store' = store
      ]_vars

\* A step in which the request pass i was waiting for failed, or its answer
\* could not be handled: the pass ends rejected.
IsRejection(i) ==
    /\ i \in DOMAIN passes'
    /\ passes[i].pc \in {"awaitLatest", "awaitTag"}
    /\ passes'[i].pc = "rejected"

\* C12: a failed fetch ends the pass and leaves the store alone.  If it is the
\* latest-release fetch, nothing is sent and app_version is not read; if it is
\* the tagged-release fetch, no show_release_notes is sent and app_version
\* keeps the older version, so that a later pass still takes the upgrade
\* branch; a rejected pass takes no further step.
C12_FetchFailureLeavesStore ==
    [][ \A i \in DOMAIN passes :
          /\ IsRejection(i)
              => /\ store' = store
                 /\ sent' = sent
                 /\ notesShown' = notesShown
                 /\ ~IsStoreRead
                 /\ passes'[i].tag = passes[i].tag
                 /\ (passes[i].pc = "awaitTag" /\ Senders("show_release_notes") = {})
                       => /\ store'.app_version \notin {Absent, appVersion}
                          /\ IsUpgraded(store'.app_version)
                          /\ ~IsFirstRun(store'.app_version)
          /\ (i \in DOMAIN passes' /\ passes[i].pc = "rejected")
              => passes'[i] = passes[i]
      ]_vars

\* C12 witness: in a run whose window is still open, the tagged-release fetch
\* of the first pass failed and the second pass, started after it, has sent
\* show_release_notes and advanced the store.
C12_Witness ==
    /\ appState = "ready"
    /\ mainWindow = "BrowserWindow"
    /\ Len(passes) = 2
    /\ passes[1].pc = "rejected"
    /\ passes[1].tag = << "v", appVersion >>
    /\ passes[2].pc = "done"
    /\ Senders("show_release_notes") = {2}
    /\ notesShown[appVersion] = 1
    /\ store.app_version = appVersion

\* The levels of the entries the last step wrote to the log.
LoggedLevels == { logged[k].level : k \in DOMAIN logged }

\* C13: every failure of a release fetch is written to the error log.
C13_FetchFailureLogged ==
    [][ \A i \in DOMAIN passes : IsRejection(i) => "error" \in LoggedLevels' ]_vars

\* C14: a headless run starts its one server with exactly the flags
\* '-html-static-dir' and the packaged frontend's path, and never has a
\* window (nor a pass, which only a window starts); a windowed run starts its
\* server without flags.
C14_HeadlessFlagsAndNoWindow ==
    appState # "off" =>
        IF isHeadlessMode
        THEN /\ Len(procs) = 1
             /\ procs[1].flags = << "-html-static-dir", "resourcesPath/frontend" >>
             /\ mainWindow # "BrowserWindow"
             /\ passes = << >>
        ELSE \A p \in DOMAIN procs : procs[p].flags = << >>

\* C14 witness: a headless run from its start to the 'close' of its server.
C14_Witness ==
    /\ isHeadlessMode
    /\ appState = "quit"
    /\ procs[1].flags = << "-html-static-dir", "resourcesPath/frontend" >>
    /\ procs[1].status = "closed"
    /\ mainWindow = "undefined"

\* Whether the word occurs somewhere in the text.
HasSubstring(text, word) ==
    \E k \in 0..(Len(text) - Len(word)) :
        \A j \in 1..Len(word) : text[k + j] = word[j]

RequestingUsers ==
    << "R", "e", "q", "u", "e", "s", "t", "i", "n", "g", ":", " ", "u", "s", "e", "r", "s" >>
ConnectionRefused ==
    << "c", "o", "n", "n", "e", "c", "t", "i", "o", "n", " ", "r", "e", "f", "u", "s", "e", "d" >>

\* The lines the last step logged for output of the server on one stream.
OutputLines(stream) ==
    { k \in DOMAIN logged : "data" \in DOMAIN logged[k] /\ logged[k].msg = stream }

\* C15: a line logged for stderr output is informational if the output
\* contains 'Requesting' and an error otherwise ('Requesting: users' is
\* informational, 'connection refused' an error); a line logged for stdout
\* output is informational.
C15_OutputClassified ==
    /\ \A k \in OutputLines("server process stderr: ") :
          /\ logged[k].level =
                (IF HasSubstring(logged[k].data, Requesting) THEN "info" ELSE "error")
          /\ logged[k].data = RequestingUsers => logged[k].level = "info"
          /\ logged[k].data = ConnectionRefused => logged[k].level = "error"
    /\ \A k \in OutputLines("server process stdout: ") : logged[k].level = "info"

\* C15 witness: the server wrote 'Requesting: users' to stderr and the line
\* was logged as informational.
C15_Witness ==
    logged = << [level |-> "info", msg |-> "server process stderr: ",
                 data |-> RequestingUsers] >>

\* C16: of the passes of one run, at most one emits show_release_notes.
C16_OverlappingPassesSerialized == Cardinality(Senders("show_release_notes")) <= 1

\* C17: once the 'close' of a server that nobody asked to stop has been
\* observed, the supervisor is as if no server had been started: it holds no
\* handle and no exit report; and quitServerProcess, called while the handle
\* is that of a running server, does not take its no-op branch.
C17_ExitReturnsToNotStarted ==
    /\ \A p \in DOMAIN procs :
          (procs[p].status = "closed" /\ ~Truthy(intentionalQuit))
          => /\ serverProcess.type # "ChildProcess"
             /\ ~Truthy(serverProcessQuit)
    /\ (serverProcess.type = "ChildProcess" /\ procs[serverProcess.pid].status = "running")
          => ~(serverProcess.type # "ChildProcess" \/ Truthy(serverProcessQuit))

\* C18: a call of quitServerProcess that finds a session sets intentionalQuit
\* first (it is true even when the first signal throws and ends the call);
\* on a running server it then calls, in this order, kill of the process
\* group (on every platform but win32), stdin.destroy and kill of the
\* process; on win32 no group is ever signalled.  Within one run
\* intentionalQuit changes only in such a call and never changes back.
C18_StopOrder ==
    [][ /\ (logged' = StoppingLog) =>
             LET pid == serverProcess.pid
                 group == [op |-> "kill_group", pid |-> pid]
                 stdin == [op |-> "stdin_destroy", pid |-> pid]
                 direct == [op |-> "kill", pid |-> pid]
             IN /\ serverProcess.type = "ChildProcess"
                /\ intentionalQuit' = "true"
                /\ win32 => signals' = signals \o << stdin, direct >>
                /\ ~win32 =>
                      /\ signals' \in { Append(signals, group),
                                        signals \o << group, stdin, direct >> }
                      /\ procs[pid].status = "running"
                            => signals' = signals \o << group, stdin, direct >>
        /\ win32 => \A k \in DOMAIN signals' : signals'[k].op # "kill_group"
        /\ (intentionalQuit' # intentionalQuit /\ runs' = runs)
             => (intentionalQuit' = "true" /\ logged' = StoppingLog)
      ]_vars

\* C18 witness: on a platform with process groups, quitServerProcess has just
\* stopped a running server with its three calls.
C18_Witness ==
    /\ ~win32
    /\ logged = StoppingLog
    /\ intentionalQuit = "true"
    /\ serverProcess.type = "null"
    /\ signals = << [op |-> "kill_group", pid |-> 1], [op |-> "stdin_destroy", pid |-> 1],
                    [op |-> "kill", pid |-> 1] >>
    /\ procs[1].status = "running"

\* C19: a call of quitServerProcess when no server was ever started, or when
\* the 'close' of the server has been observed, logs 'server process already
\* not running' and does nothing else: no signal, intentionalQuit,
\* serverProcess and serverProcessQuit as they were.
C19_StopIsNoop ==
    [][ (IsStopStep /\ (serverProcess.type = "undefined" \/ Truthy(serverProcessQuit)))
        => /\ logged' = NotRunningLog
           /\ signals' = signals
           /\ intentionalQuit' = intentionalQuit
           /\ serverProcess' = serverProcess
           /\ serverProcessQuit' = serverProcessQuit
           /\ procs' = procs
      ]_vars

\* C19 witness: quitServerProcess was called after the server had ended on
\* its own and its 'close' had been observed; nothing was signalled.
C19_Witness ==
    /\ logged = NotRunningLog
    /\ serverProcessQuit = "true"
    /\ serverProcess.type = "ChildProcess"
    /\ procs[serverProcess.pid].status = "closed"
    /\ intentionalQuit = "undefined"
    /\ signals = << >>

\* C20: when the answer to the latest-release request makes a pass send
\* update_available (the names differ), the window is still there.
C20_NoSendToClosedWindow ==
    [][ \A i \in DOMAIN passes :
          ( /\ i \in DOMAIN passes'
            /\ passes[i].pc = "awaitLatest"
            /\ passes'[i].latestName \notin {Absent, appVersion} )
          => mainWindow = "BrowserWindow"
      ]_vars
====
